---- MODULE Spec2Model ----
(***************************************************************************)
(* The EcoScore gamification engine of greenbridge/eco_cabinet/models.py:  *)
(* the stored EcoScore row of one user, the user's textile batches, and    *)
(* EcoScore.update_from_batches with its two helpers.                      *)
(*                                                                         *)
(* Units: weights are Decimal(12,2) values and are kept in hundredths of   *)
(* a kilogram (1.00 kg = 100).  The impact totals and trees_equivalent are *)
(* Decimal values kept in millionths (1.00 = 1000000), fine enough for     *)
(* weight * coefficient / 20 to be exact; save() stores them with two      *)
(* decimal places.  Dates are day numbers; NoDate is None.                 *)
(* next_badge_progress is a float quotient and is kept as the exact        *)
(* fraction [num, den] in lowest terms.                                    *)
(***************************************************************************)
EXTENDS Integers, Sequences, FiniteSets, TLC

VARIABLES
    batches,   \* the TextileBatch table: kind of row -> number of rows
    score,     \* the stored EcoScore row of the user
    pc,        \* per worker: position inside update_from_batches
    inst,      \* per worker: the in-memory EcoScore instance (self)
    lastAgg,   \* history: what the most recently completed aggregation read
    gam,       \* position of the stand-alone helper call
    clock,     \* timezone.now().date() as read by the latest _update_streak
    hist,      \* history of the runs: see NoHist
    users,     \* the User table: id -> "none", "active" or "deleted" (soft)
    scores,    \* the EcoScore table: user id -> number of rows of that user
    history,   \* the EcoHistory table: a set of rows
    result,    \* how the latest request on these tables or the market ended
    listings,  \* the Listing table: id -> row or NoRow
    deals,     \* the Deal table: id -> row or NoRow
    events,    \* the DealEvent table: [deal, event_type] -> number of rows
    now        \* timezone.now() as a counter of the saves so far

ecoVars == <<batches, score, pc, inst, lastAgg, gam, clock, hist>>
storeVars == <<users, scores, history, result>>
marketVars == <<listings, deals, events, now>>
otherVars == <<storeVars, marketVars>>

vars == <<ecoVars, storeVars, marketVars>>

----------------------------------------------------------------------------
(* Bounds of the model *)

MaxBatches == 2
MaxDay == 9
MaxConcDay == 1
MaxStreak == 6
MaxTrigDay == 4
MaxAggRows == 2
MaxUsers == 2
MaxListings == 1
MaxDeals == 2
MaxNow == 3

Days == 1..MaxDay
ConcDays == 1..MaxConcDay
TrigDays == 1..MaxTrigDay
UserIds == 1..MaxUsers
ListingIds == 1..MaxListings
DealIds == 1..MaxDeals

\* weights of the batches that get recycled (0.05, 0.95 and 10.00 kg)
WeightChoices == {5, 95, 1000}
ConcWeightChoices == {1000}

Workers == {1, 2}

----------------------------------------------------------------------------
(* Program constants *)

NoDate == 0

Hundredths == 100

\* a NULL per-kg coefficient of a material
NoCoefficient == -1

\* Decimal('20.00'): kg of CO2 one tree absorbs per year
TreesDivisor == 20

\* the owner of the score, and TextileBatch.RECYCLED
User == "user"
RECYCLED == "recycled"

\* a material with all three per-kg coefficients (2.50, 10.00, 0.33) and a
\* material with none
Cotton == [co2_per_kg |-> 250, water_per_kg |-> 1000, energy_per_kg |-> 33]
Unrated ==
    [co2_per_kg |-> NoCoefficient, water_per_kg |-> NoCoefficient,
     energy_per_kg |-> NoCoefficient]

LevelThresholds == <<0, 100, 300, 600, 1000, 1500, 2100, 2800, 3600, 4500, 5500>>

\* thresholds in kg, as in the Decimal('1.00') ... literals
WeightBadges ==
    << [code |-> "first_step", threshold |-> 1],
       [code |-> "eco_starter", threshold |-> 10],
       [code |-> "eco_enthusiast", threshold |-> 50],
       [code |-> "eco_warrior", threshold |-> 100],
       [code |-> "eco_champion", threshold |-> 500],
       [code |-> "eco_legend", threshold |-> 1000] >>

BatchBadges ==
    << [code |-> "regular_recycler", threshold |-> 5],
       [code |-> "dedicated_recycler", threshold |-> 20],
       [code |-> "recycling_expert", threshold |-> 50] >>

StreakBadges ==
    << [code |-> "weekly_streak", threshold |-> 7],
       [code |-> "monthly_streak", threshold |-> 30],
       [code |-> "centurion", threshold |-> 100] >>

\* next_badge_thresholds, already in the order sorted(..., key=threshold) gives
NextBadgeThresholds ==
    << [code |-> "first_step", threshold |-> 1],
       [code |-> "eco_starter", threshold |-> 10],
       [code |-> "eco_enthusiast", threshold |-> 50],
       [code |-> "eco_warrior", threshold |-> 100],
       [code |-> "eco_champion", threshold |-> 500],
       [code |-> "eco_legend", threshold |-> 1000] >>

----------------------------------------------------------------------------
(* The TextileBatch table.  A kind of row is an owner, a status, the       *)
(* is_active flag, a weight and the material with its coefficients.        *)

\* the kinds of row that MarkRecycled and Deactivate produce
BatchKinds ==
    [owner : {User}, status : {RECYCLED}, is_active : BOOLEAN,
     weight_kg : WeightChoices, material_type : {Cotton}]

\* the user's recycled batch of weight w, active or not
RecycledKind(w, active) ==
    [owner |-> User, status |-> RECYCLED, is_active |-> active,
     weight_kg |-> w, material_type |-> Cotton]

\* the number of rows of the kinds S (weighted FALSE) or the sum of their
\* weight_kg (weighted TRUE)
RECURSIVE SumRows(_, _, _)
SumRows(S, store, weighted) ==
    IF S = {} THEN 0
    ELSE LET k == CHOOSE x \in S : TRUE
         IN  (IF weighted THEN k.weight_kg ELSE 1) * store[k]
             + SumRows(S \ {k}, store, weighted)

\* a variant of the filter without the owner condition
FilterBatchesAnyOwner(store) ==
    {k \in DOMAIN store : k.status = RECYCLED /\ k.is_active}

\* TextileBatch.objects.filter(owner=..., status=RECYCLED, is_active=True)
FilterBatches(store) ==
    {k \in DOMAIN store :
        k.owner = User /\ k.status = RECYCLED /\ k.is_active}

\* batches.count()
BatchesCount(store) == SumRows(FilterBatches(store), store, FALSE)

\* batches.aggregate(total=Sum('weight_kg'))['total'] or Decimal('0.00')
WeightSum(store) == SumRows(FilterBatches(store), store, TRUE)

TableSize(store) == SumRows(DOMAIN store, store, FALSE)

\* the sum of weight_kg * coefficient over the rows of the kinds S, in
\* millionths
RECURSIVE SumProducts(_, _, _)
SumProducts(S, store, field) ==
    IF S = {} THEN 0
    ELSE LET k == CHOOSE x \in S : TRUE
         IN  k.weight_kg * k.material_type[field] * Hundredths * store[k]
             + SumProducts(S \ {k}, store, field)

\* a variant in which one NULL product makes the whole sum NULL, which
\* `or Decimal('0.00')` then turns into zero
ImpactSumNullPoisons(store, field) ==
    IF \E k \in FilterBatches(store) :
           store[k] > 0 /\ k.material_type[field] = NoCoefficient
    THEN 0
    ELSE SumProducts(FilterBatches(store), store, field)

\* batches.aggregate(Sum(F('weight_kg') * F('material_type__..._per_kg')))
\* or Decimal('0.00'): SUM skips the rows whose product is NULL and is NULL
\* when no row is left
ImpactSum(store, field) ==
    SumProducts({k \in FilterBatches(store) :
                    k.material_type[field] # NoCoefficient}, store, field)

----------------------------------------------------------------------------
(* The EcoScore row *)

RECURSIVE Gcd(_, _)
Gcd(a, b) == IF b = 0 THEN a ELSE Gcd(b, a % b)

\* the float n/d, kept as the fraction in lowest terms (equal quotients are equal)
Progress(n, d) == [num |-> n \div Gcd(n, d), den |-> d \div Gcd(n, d)]

\* the field defaults of a row made by create_eco_score
FreshScore ==
    [ total_batches        |-> 0,
      total_weight_kg      |-> 0,
      level                |-> 1,
      points               |-> 0,
      badges               |-> {},
      next_badge_progress  |-> Progress(0, 1),
      total_co2_saved_kg       |-> 0,
      total_water_saved_liters |-> 0,
      total_energy_saved_kwh   |-> 0,
      trees_equivalent         |-> 0,
      streak_days          |-> 0,
      longest_streak_days  |-> 0,
      last_activity_date   |-> NoDate ]

----------------------------------------------------------------------------
(* _update_gamification_elements *)

\* int(x) of a quotient n/d: truncation toward zero
IntTrunc(n, d) == IF n >= 0 THEN n \div d ELSE -((-n) \div d)

\* a variant that rounds to the nearest integer instead of truncating
ComputePointsRounded(weight) == IntTrunc(weight * 10 + 50, Hundredths)

\* int(self.total_weight_kg * 10)
ComputePoints(weight) == IntTrunc(weight * 10, Hundredths)

\* for i, threshold in enumerate(level_thresholds): if points >= threshold: level = i + 1
RECURSIVE LevelLoop(_, _, _)
LevelLoop(i, points, level) ==
    IF i > Len(LevelThresholds) THEN level
    ELSE LevelLoop(i + 1, points,
                   IF points >= LevelThresholds[i] THEN i ELSE level)

\* a variant of the loop that compares with > instead of >=
RECURSIVE LevelLoopStrict(_, _, _)
LevelLoopStrict(i, points, level) ==
    IF i > Len(LevelThresholds) THEN level
    ELSE LevelLoopStrict(i + 1, points,
                         IF points > LevelThresholds[i] THEN i ELSE level)

ComputeLevelStrict(points, level) == LevelLoopStrict(1, points, level)

\* a variant of the loop that stores the 0-based index i instead of i + 1
ComputeLevelZeroBased(points, level) == LevelLoop(1, points, level) - 1

ComputeLevel(points, level) == LevelLoop(1, points, level)

EarnedCodes(table, value) ==
    {table[i].code : i \in {j \in 1..Len(table) : value >= table[j].threshold}}

\* a variant whose weight comparisons are > instead of >=
ComputeBadgesStrict(weight, nbatches, streak) ==
    {WeightBadges[i].code :
        i \in {j \in 1..Len(WeightBadges) :
                  weight > WeightBadges[j].threshold * Hundredths}}
    \cup EarnedCodes(BatchBadges, nbatches)
    \cup EarnedCodes(StreakBadges, streak)

\* a variant whose streak comparisons are = instead of >=
ComputeBadgesExactStreak(weight, nbatches, streak) ==
    {WeightBadges[i].code :
        i \in {j \in 1..Len(WeightBadges) :
                  weight >= WeightBadges[j].threshold * Hundredths}}
    \cup EarnedCodes(BatchBadges, nbatches)
    \cup {StreakBadges[i].code :
             i \in {j \in 1..Len(StreakBadges) :
                       streak = StreakBadges[j].threshold}}

\* the list `badges` built by the twelve if-statements, as set(badges)
ComputeBadges(weight, nbatches, streak) ==
    {WeightBadges[i].code :
        i \in {j \in 1..Len(WeightBadges) :
                  weight >= WeightBadges[j].threshold * Hundredths}}
    \cup EarnedCodes(BatchBadges, nbatches)
    \cup EarnedCodes(StreakBadges, streak)

\* a variant of the for/else without the break: the else branch always runs
NextBadgeLoopNoBreak(i, weight, badges) == Progress(1, 1)

\* the for/else over the sorted next_badge_thresholds
RECURSIVE NextBadgeLoop(_, _, _)
NextBadgeLoop(i, weight, badges) ==
    IF i > Len(NextBadgeThresholds) THEN Progress(1, 1)
    ELSE IF NextBadgeThresholds[i].code \notin badges
         THEN Progress(weight, NextBadgeThresholds[i].threshold * Hundredths)
         ELSE NextBadgeLoop(i + 1, weight, badges)

NextBadgeProgress(weight, badges) == NextBadgeLoop(1, weight, badges)

\* a variant that scans the badges stored before the call for the progress
UpdateGamificationElementsStale(s) ==
    LET p == ComputePoints(s.total_weight_kg)
        b == ComputeBadges(s.total_weight_kg, s.total_batches, s.streak_days)
    IN  [s EXCEPT !.points = p,
                  !.level = ComputeLevel(p, s.level),
                  !.badges = b,
                  !.next_badge_progress = NextBadgeProgress(s.total_weight_kg, s.badges)]

UpdateGamificationElements(s) ==
    LET p == ComputePoints(s.total_weight_kg)
        b == ComputeBadges(s.total_weight_kg, s.total_batches, s.streak_days)
    IN  [s EXCEPT !.points = p,
                  !.level = ComputeLevel(p, s.level),
                  !.badges = b,
                  !.next_badge_progress = NextBadgeProgress(s.total_weight_kg, b)]

----------------------------------------------------------------------------
(* _update_streak *)

\* a variant whose consecutive-day branch leaves longest_streak_days alone
UpdateStreakKeepsLongest(s, today) ==
    IF s.last_activity_date = NoDate
    THEN [s EXCEPT !.streak_days = 1,
                   !.longest_streak_days = 1,
                   !.last_activity_date = today]
    ELSE IF s.last_activity_date = today
    THEN s
    ELSE IF today - s.last_activity_date = 1
    THEN [s EXCEPT !.streak_days = s.streak_days + 1,
                   !.last_activity_date = today]
    ELSE [s EXCEPT !.streak_days = 1,
                   !.last_activity_date = today]

\* a variant without the same-day branch
UpdateStreakNoSameDay(s, today) ==
    IF s.last_activity_date = NoDate
    THEN [s EXCEPT !.streak_days = 1,
                   !.longest_streak_days = 1,
                   !.last_activity_date = today]
    ELSE IF today - s.last_activity_date = 1
    THEN [s EXCEPT !.streak_days = s.streak_days + 1,
                   !.last_activity_date = today,
                   !.longest_streak_days =
                       IF s.streak_days + 1 > s.longest_streak_days
                       THEN s.streak_days + 1
                       ELSE s.longest_streak_days]
    ELSE [s EXCEPT !.streak_days = 1,
                   !.last_activity_date = today]

\* a variant whose broken-streak branch also resets longest_streak_days
UpdateStreakResetsLongest(s, today) ==
    IF s.last_activity_date = NoDate
    THEN [s EXCEPT !.streak_days = 1,
                   !.longest_streak_days = 1,
                   !.last_activity_date = today]
    ELSE IF s.last_activity_date = today
    THEN s
    ELSE IF today - s.last_activity_date = 1
    THEN [s EXCEPT !.streak_days = s.streak_days + 1,
                   !.last_activity_date = today,
                   !.longest_streak_days =
                       IF s.streak_days + 1 > s.longest_streak_days
                       THEN s.streak_days + 1
                       ELSE s.longest_streak_days]
    ELSE [s EXCEPT !.streak_days = 1,
                   !.longest_streak_days = 1,
                   !.last_activity_date = today]

\* a variant whose first-activity branch does not set longest_streak_days
UpdateStreakFirstKeepsLongest(s, today) ==
    IF s.last_activity_date = NoDate
    THEN [s EXCEPT !.streak_days = 1,
                   !.last_activity_date = today]
    ELSE IF s.last_activity_date = today
    THEN s
    ELSE IF today - s.last_activity_date = 1
    THEN [s EXCEPT !.streak_days = s.streak_days + 1,
                   !.last_activity_date = today,
                   !.longest_streak_days =
                       IF s.streak_days + 1 > s.longest_streak_days
                       THEN s.streak_days + 1
                       ELSE s.longest_streak_days]
    ELSE [s EXCEPT !.streak_days = 1,
                   !.last_activity_date = today]

\* a variant whose broken-streak branch does not store today
UpdateStreakBrokenKeepsDate(s, today) ==
    IF s.last_activity_date = NoDate
    THEN [s EXCEPT !.streak_days = 1,
                   !.longest_streak_days = 1,
                   !.last_activity_date = today]
    ELSE IF s.last_activity_date = today
    THEN s
    ELSE IF today - s.last_activity_date = 1
    THEN [s EXCEPT !.streak_days = s.streak_days + 1,
                   !.last_activity_date = today,
                   !.longest_streak_days =
                       IF s.streak_days + 1 > s.longest_streak_days
                       THEN s.streak_days + 1
                       ELSE s.longest_streak_days]
    ELSE [s EXCEPT !.streak_days = 1]

UpdateStreak(s, today) ==
    IF s.last_activity_date = NoDate
    THEN [s EXCEPT !.streak_days = 1,
                   !.longest_streak_days = 1,
                   !.last_activity_date = today]
    ELSE IF s.last_activity_date = today
    THEN s
    ELSE IF today - s.last_activity_date = 1
    THEN [s EXCEPT !.streak_days = s.streak_days + 1,
                   !.last_activity_date = today,
                   !.longest_streak_days =
                       IF s.streak_days + 1 > s.longest_streak_days
                       THEN s.streak_days + 1
                       ELSE s.longest_streak_days]
    ELSE [s EXCEPT !.streak_days = 1,
                   !.last_activity_date = today]

----------------------------------------------------------------------------
(* The tables around the score: users, their EcoScore rows and EcoHistory, *)
(* and the marketplace tables, all empty                                   *)

NoRow == [status |-> "none"]

\* a NULL DateTimeField
NoTime == 0

\* timezone.now().date() of every save of the model: one calendar day
Today == 1

\* an empty reference_code, and the code D-<yymmdd>-<sequence>
NoCode == <<>>
ReferenceCode(day, sequence) == <<day, sequence>>

\* the statuses the requests move listings and deals to
ListingStatuses == {"draft", "active", "reserved"}
DealStatuses == {"pending", "accepted", "completed", "cancelled"}

\* event_type 'created' and f"status_changed_to_{status}"
Created == [kind |-> "created", status |-> ""]
StatusChangedTo(st) == [kind |-> "status_changed_to", status |-> st]
EventTypes == {Created} \cup {StatusChangedTo(st) : st \in DealStatuses}

\* a request on the tables: its operation, its key and how it ended
Request(op, u, d, p, outcome) ==
    [op |-> op, user |-> u, date |-> d, period_type |-> p,
     outcome |-> outcome]

EmptyStore ==
    /\ users = [u \in UserIds |-> "none"]
    /\ scores = [u \in UserIds |-> 0]
    /\ history = {}
    /\ result = Request("none", 0, NoDate, "", "none")

EmptyMarket ==
    /\ listings = [l \in ListingIds |-> NoRow]
    /\ deals = [d \in DealIds |-> NoRow]
    /\ events = [e \in DealIds \X EventTypes |-> 0]
    /\ now = 0

----------------------------------------------------------------------------
(* update_from_batches *)

\* lines 113-117: the two aggregate queries write the totals into self
WithTotals(s, nbatches, weight) ==
    [s EXCEPT !.total_batches = nbatches, !.total_weight_kg = weight]

\* lines 119-131: the impact totals and the trees equivalent (the CO2 total
\* in millionths is a multiple of 100, so the division is exact)
WithImpact(s, store) ==
    LET co2 == ImpactSum(store, "co2_per_kg")
    IN  [s EXCEPT !.total_co2_saved_kg = co2,
                  !.total_water_saved_liters = ImpactSum(store, "water_per_kg"),
                  !.total_energy_saved_kwh = ImpactSum(store, "energy_per_kg"),
                  !.trees_equivalent = co2 \div TreesDivisor]

\* lines 133-137: gamification first, then the streak
Recompute(s, today) == UpdateStreak(UpdateGamificationElements(s), today)

\* self after lines 105-137, started from the instance s
Computed(s, store, today) ==
    Recompute(WithImpact(WithTotals(s, BatchesCount(store), WeightSum(store)),
                         store), today)

Abs(x) == IF x >= 0 THEN x ELSE -x

\* a Decimal in millionths as a DecimalField with decimal_places=2 stores it:
\* rounded to the nearest hundredth, ties away from zero
RoundCents(x) ==
    LET u == Hundredths * Hundredths
        q == (2 * Abs(x) + u) \div (2 * u)
    IN  IF x >= 0 THEN q * u ELSE -(q * u)

\* save() raises IntegrityError when a PositiveIntegerField is negative
\* (the column's CHECK (... >= 0)); the UPDATE then writes nothing
SaveFails(s) ==
    \/ s.total_batches < 0
    \/ s.level < 0
    \/ s.points < 0
    \/ s.streak_days < 0
    \/ s.longest_streak_days < 0

\* the row save() writes for the instance s
SaveRow(s) ==
    [s EXCEPT !.total_co2_saved_kg = RoundCents(@),
              !.total_water_saved_liters = RoundCents(@),
              !.total_energy_saved_kwh = RoundCents(@),
              !.trees_equivalent = RoundCents(@)]

\* the stored row after self.save() of the instance s, where old is the row
\* before
Stored(old, s) == IF SaveFails(s) THEN old ELSE SaveRow(s)

Outcome(s) == IF SaveFails(s) THEN "error" ELSE "saved"

NoAgg == [total_batches |-> -1, total_weight_kg |-> -1]

\* history of the runs so far: the largest streak_days a run has stored;
\* and, recorded by Trigger only, the dates on which a run changed
\* streak_days, whether a run's date was earlier than the stored
\* last_activity_date, and whether a run took place on a date on which an
\* earlier run had changed streak_days; and how the latest run ended
NoHist ==
    [maxStreak |-> 0, changedOn |-> {}, wentBack |-> FALSE, rerun |-> FALSE,
     outcome |-> "none"]

Max(a, b) == IF a >= b THEN a ELSE b

Init ==
    /\ batches = [k \in BatchKinds |-> 0]
    /\ score = FreshScore
    /\ pc = [w \in Workers |-> "idle"]
    /\ inst = [w \in Workers |-> FreshScore]
    /\ lastAgg = NoAgg
    /\ gam = "idle"
    /\ clock = NoDate
    /\ hist = NoHist
    /\ EmptyStore
    /\ EmptyMarket

(* A batch of the user reaches status RECYCLED. *)
MarkRecycled(w) ==
    /\ TableSize(batches) < MaxBatches
    /\ LET k == RecycledKind(w, TRUE)
       IN  batches' = [batches EXCEPT ![k] = @ + 1]
    /\ UNCHANGED <<score, pc, inst, lastAgg, gam, clock, hist, otherVars>>

(* A recycled batch of the user is deactivated (is_active = False). *)
Deactivate(w) ==
    /\ LET k == RecycledKind(w, TRUE)
           o == RecycledKind(w, FALSE)
       IN  /\ batches[k] > 0
           /\ batches' = [batches EXCEPT ![k] = @ - 1, ![o] = @ + 1]
    /\ UNCHANGED <<score, pc, inst, lastAgg, gam, clock, hist, otherVars>>

(* One whole run of update_from_batches on the stored row, on date today. *)
UpdateFromBatches(today) ==
    /\ LET self == Computed(score, batches, today)
       IN  /\ score' = Stored(score, self)
           /\ hist' = [hist EXCEPT !.maxStreak = Max(@, score'.streak_days),
                                   !.outcome = Outcome(self)]
    /\ clock' = today
    /\ UNCHANGED <<batches, pc, inst, lastAgg, gam, otherVars>>

Next ==
    \/ \E w \in WeightChoices : MarkRecycled(w)
    \/ \E w \in WeightChoices : Deactivate(w)
    \/ \E d \in Days : UpdateFromBatches(d)

Spec == Init /\ [][Next]_vars

----------------------------------------------------------------------------
(* update_from_batches run by two workers on the same user's row.  The     *)
(* method takes no lock and opens no transaction: the instance is read,    *)
(* each aggregate is its own query, and save() writes every field of the   *)
(* instance back.                                                          *)

(* The caller obtains the instance (user.eco_score): a copy of the row. *)
Load(w) ==
    /\ pc[w] = "idle"
    /\ inst' = [inst EXCEPT ![w] = score]
    /\ pc' = [pc EXCEPT ![w] = "loaded"]
    /\ UNCHANGED <<batches, score, lastAgg, gam, clock, hist, otherVars>>

(* self.total_batches = batches.count() *)
CountQuery(w) ==
    /\ pc[w] = "loaded"
    /\ inst' = [inst EXCEPT ![w].total_batches = BatchesCount(batches)]
    /\ pc' = [pc EXCEPT ![w] = "counted"]
    /\ UNCHANGED <<batches, score, lastAgg, gam, clock, hist, otherVars>>

(* self.total_weight_kg = batches.aggregate(total=Sum('weight_kg')) *)
SumQuery(w) ==
    /\ pc[w] = "counted"
    /\ inst' = [inst EXCEPT ![w].total_weight_kg = WeightSum(batches)]
    /\ pc' = [pc EXCEPT ![w] = "summed"]
    /\ lastAgg' = [total_batches |-> inst[w].total_batches,
                   total_weight_kg |-> WeightSum(batches)]
    /\ UNCHANGED <<batches, score, gam, clock, hist, otherVars>>

(* impact = batches.aggregate(co2=..., water=..., energy=...) *)
ImpactQuery(w) ==
    /\ pc[w] = "summed"
    /\ inst' = [inst EXCEPT ![w] = WithImpact(inst[w], batches)]
    /\ pc' = [pc EXCEPT ![w] = "impacted"]
    /\ UNCHANGED <<batches, score, lastAgg, gam, clock, hist, otherVars>>

(* _update_gamification_elements(); _update_streak(); save() *)
Save(w, today) ==
    /\ pc[w] = "impacted"
    /\ LET self == Recompute(inst[w], today)
       IN  /\ score' = Stored(score, self)
           /\ hist' = [hist EXCEPT !.maxStreak = Max(@, score'.streak_days),
                                   !.outcome = Outcome(self)]
    /\ inst' = [inst EXCEPT ![w] = FreshScore]
    /\ pc' = [pc EXCEPT ![w] = "idle"]
    /\ clock' = today
    /\ UNCHANGED <<batches, lastAgg, gam, otherVars>>

NextConc ==
    \/ \E k \in ConcWeightChoices : MarkRecycled(k)
    \/ \E w \in Workers : Load(w)
    \/ \E w \in Workers : CountQuery(w)
    \/ \E w \in Workers : SumQuery(w)
    \/ \E w \in Workers : ImpactQuery(w)
    \/ \E w \in Workers, d \in ConcDays : Save(w, d)

SpecConc == Init /\ [][NextConc]_vars

----------------------------------------------------------------------------
(* _update_gamification_elements applied once to the instance of worker 1. *)
(* The instance is a copy of the stored row, whose total weight, batch     *)
(* count and level are drawn from the values around the level and badge    *)
(* thresholds and whose badges are none or all of the weight badges; the   *)
(* row keeps the values the instance had before the call.                  *)

GamWeights ==
    {x \in {LevelThresholds[i] * 10 + e :
               i \in 1..Len(LevelThresholds), e \in {-1, 0, 9, 10}}
           \cup {WeightBadges[i].threshold * Hundredths + e :
                    i \in 1..Len(WeightBadges), e \in {-1, 0, 1}} : x >= 0}

GamBatchCounts ==
    {0} \cup {BatchBadges[i].threshold + e :
                 i \in 1..Len(BatchBadges), e \in {-1, 0, 1}}

GamStoredBadges ==
    {{}, {WeightBadges[i].code : i \in 1..Len(WeightBadges)}}

\* stored streaks: none, or a streak that stands at a streak threshold
GamStreaks ==
    {0} \cup {StreakBadges[i].threshold : i \in 1..Len(StreakBadges)}

InitGam ==
    /\ batches = [k \in BatchKinds |-> 0]
    /\ \E x \in GamWeights, n \in GamBatchCounts,
          l \in 1..Len(LevelThresholds), b \in GamStoredBadges,
          st \in GamStreaks :
          score = [FreshScore EXCEPT !.total_weight_kg = x,
                                     !.total_batches = n,
                                     !.level = l,
                                     !.badges = b,
                                     !.streak_days = st,
                                     !.longest_streak_days = st,
                                     !.last_activity_date =
                                         IF st = 0 THEN NoDate ELSE 1]
    /\ pc = [w \in Workers |-> "idle"]
    /\ inst = [w \in Workers |-> IF w = 1 THEN score ELSE FreshScore]
    /\ lastAgg = NoAgg
    /\ gam = "input"
    /\ clock = NoDate
    /\ hist = NoHist
    /\ EmptyStore
    /\ EmptyMarket

GamApply ==
    /\ gam = "input"
    /\ inst' = [inst EXCEPT ![1] = UpdateGamificationElements(inst[1])]
    /\ gam' = "done"
    /\ UNCHANGED <<batches, score, pc, lastAgg, clock, hist, otherVars>>

NextGam == GamApply

SpecGam == InitGam /\ [][NextGam]_vars

----------------------------------------------------------------------------
(* _update_streak applied once to the instance of worker 1, on the date in *)
(* clock.  The instance is a copy of the stored row, which is either fresh *)
(* or holds a last activity date, a streak of 1..MaxStreak days and a      *)
(* longest streak at least as long; the row keeps the values the instance  *)
(* had before the call.                                                    *)

StreakRows ==
    {FreshScore} \cup
    {[FreshScore EXCEPT !.last_activity_date = d,
                        !.streak_days = st,
                        !.longest_streak_days = lg] :
        d \in Days, st \in 1..MaxStreak, lg \in 1..MaxStreak}

InitStreak ==
    /\ batches = [k \in BatchKinds |-> 0]
    /\ score \in {r \in StreakRows : r.longest_streak_days >= r.streak_days}
    /\ pc = [w \in Workers |-> "idle"]
    /\ inst = [w \in Workers |-> IF w = 1 THEN score ELSE FreshScore]
    /\ lastAgg = NoAgg
    /\ gam = "input"
    /\ clock \in Days
    /\ hist = NoHist
    /\ EmptyStore
    /\ EmptyMarket

StreakApply ==
    /\ gam = "input"
    /\ inst' = [inst EXCEPT ![1] = UpdateStreak(inst[1], clock)]
    /\ gam' = "done"
    /\ UNCHANGED <<batches, score, pc, lastAgg, clock, hist, otherVars>>

NextStreak == StreakApply

SpecStreak == InitStreak /\ [][NextStreak]_vars

----------------------------------------------------------------------------
(* A sequence of update_from_batches runs (triggers) on arbitrary dates of *)
(* a short calendar, with the history of the dates recorded.               *)

Trigger(today) ==
    /\ score' = Stored(score, Computed(score, batches, today))
    /\ clock' = today
    /\ hist' = [outcome   |-> Outcome(Computed(score, batches, today)),
                maxStreak |-> Max(hist.maxStreak, score'.streak_days),
                changedOn |-> IF score'.streak_days # score.streak_days
                              THEN hist.changedOn \cup {today}
                              ELSE hist.changedOn,
                wentBack  |-> \/ hist.wentBack
                              \/ /\ score.last_activity_date # NoDate
                                 /\ today < score.last_activity_date,
                rerun     |-> hist.rerun \/ today \in hist.changedOn]
    /\ UNCHANGED <<batches, pc, inst, lastAgg, gam, otherVars>>

NextTrig == \E d \in TrigDays : Trigger(d)

SpecTrig == Init /\ [][NextTrig]_vars

----------------------------------------------------------------------------
(* One run of update_from_batches over a table of up to MaxAggRows rows of *)
(* any owner, status, activity and material, on a row that is fresh or was *)
(* stored by an earlier run.  inst[1] is the instance (self) after the     *)
(* run, score the stored row.                                              *)

AggKinds ==
    [owner : {User, "other"}, status : {RECYCLED, "pending"},
     is_active : BOOLEAN, weight_kg : {5, 1000},
     material_type : {Cotton, Unrated}]

\* the user's recycled batches, some with a negative weight
NegKinds ==
    [owner : {User}, status : {RECYCLED}, is_active : BOOLEAN,
     weight_kg : {-1000, -5, 5}, material_type : {Cotton}]

\* the tables of at most MaxAggRows rows of the kinds K
Tables(K) ==
    {[k \in K |-> Cardinality({i \in DOMAIN q : q[i] = k})] :
        q \in UNION {[1..n -> K] : n \in 0..MaxAggRows}}

\* the row stored by a first run on day 1 with one batch of 10.00 kg
EarlierRow ==
    Stored(FreshScore,
           Computed(FreshScore,
                    [k \in BatchKinds |->
                        IF k = RecycledKind(1000, TRUE) THEN 1 ELSE 0], 1))

InitRun(K) ==
    /\ batches \in Tables(K)
    /\ score \in {FreshScore, EarlierRow}
    /\ pc = [w \in Workers |-> "idle"]
    /\ inst = [w \in Workers |-> FreshScore]
    /\ lastAgg = NoAgg
    /\ gam = "input"
    /\ clock = NoDate
    /\ hist = NoHist
    /\ EmptyStore
    /\ EmptyMarket

InitAgg == InitRun(AggKinds)

InitNeg == InitRun(NegKinds)

AggRun(today) ==
    /\ gam = "input"
    /\ LET self == Computed(score, batches, today)
       IN  /\ inst' = [inst EXCEPT ![1] = self]
           /\ score' = Stored(score, self)
           /\ hist' = [hist EXCEPT !.maxStreak = Max(@, score'.streak_days),
                                   !.outcome = Outcome(self)]
    /\ clock' = today
    /\ gam' = "done"
    /\ UNCHANGED <<batches, pc, lastAgg, otherVars>>

NextAgg == \E d \in TrigDays : AggRun(d)

SpecAgg == InitAgg /\ [][NextAgg]_vars

SpecNeg == InitNeg /\ [][NextAgg]_vars

----------------------------------------------------------------------------
(* Users, their EcoScore rows and the EcoHistory snapshots.  result is the *)
(* latest request: its operation, its key and how it ended.                *)

HistDates == {1}
HistPeriods == {"daily", "weekly"}
HistPoints == {0, 100}

\* OneToOneField(AUTH_USER_MODEL): no second EcoScore row for a user
OneToOneFree(table, u) == table[u] = 0

\* a variant of the receiver without the `if created` test
CreateEcoScoreAlways(table, u, created) ==
    IF OneToOneFree(table, u)
    THEN [rows |-> [table EXCEPT ![u] = @ + 1], raised |-> FALSE]
    ELSE [rows |-> table, raised |-> TRUE]

\* the post_save receiver create_eco_score: the EcoScore table after it and
\* whether EcoScore.objects.create raised IntegrityError
CreateEcoScore(table, u, created) ==
    IF created
    THEN IF OneToOneFree(table, u)
         THEN [rows |-> [table EXCEPT ![u] = @ + 1], raised |-> FALSE]
         ELSE [rows |-> table, raised |-> TRUE]
    ELSE [rows |-> table, raised |-> FALSE]

\* UserManager.create_user: user.save() inserts the row, then post_save
CreateUser(u) ==
    /\ users[u] = "none"
    /\ users' = [users EXCEPT ![u] = "active"]
    /\ LET h == CreateEcoScore(scores, u, TRUE)
       IN  /\ scores' = h.rows
           /\ result' = Request("create_user", u, NoDate, "",
                                IF h.raised THEN "error" ELSE "saved")
    /\ UNCHANGED <<history, ecoVars, marketVars>>

\* a later save() of a stored user: an UPDATE, then post_save
SaveUser(u) ==
    /\ users[u] # "none"
    /\ LET h == CreateEcoScore(scores, u, FALSE)
       IN  /\ scores' = h.rows
           /\ result' = Request("save_user", u, NoDate, "",
                                IF h.raised THEN "error" ELSE "saved")
    /\ UNCHANGED <<users, history, ecoVars, marketVars>>

\* SoftDeleteModel.delete: sets is_deleted and saves; the row stays
DeleteUser(u) ==
    /\ users[u] = "active"
    /\ users' = [users EXCEPT ![u] = "deleted"]
    /\ LET h == CreateEcoScore(scores, u, FALSE)
       IN  /\ scores' = h.rows
           /\ result' = Request("delete_user", u, NoDate, "",
                                IF h.raised THEN "error" ELSE "saved")
    /\ UNCHANGED <<history, ecoVars, marketVars>>

\* SoftDeleteModel.hard_delete: the row goes, and with it (on_delete=CASCADE)
\* the user's EcoScore and EcoHistory rows
HardDeleteUser(u) ==
    /\ users[u] # "none"
    /\ users' = [users EXCEPT ![u] = "none"]
    /\ scores' = [scores EXCEPT ![u] = 0]
    /\ history' = {x \in history : x.user # u}
    /\ result' = Request("hard_delete_user", u, NoDate, "", "saved")
    /\ UNCHANGED <<ecoVars, marketVars>>

\* a variant with the indexes of EcoHistory.Meta but no unique_together
UniqueTogetherIndexOnly(rows, r) == TRUE

\* unique_together = ('user', 'date', 'period_type')
UniqueTogetherFree(rows, r) ==
    \A x \in rows :
        ~ (x.user = r.user /\ x.date = r.date
           /\ x.period_type = r.period_type)

\* the rollup process inserts a snapshot of user u for (d, p)
AppendHistory(u, d, p, pts) ==
    /\ users[u] # "none"
    /\ LET r == [user |-> u, date |-> d, period_type |-> p, points |-> pts]
       IN  IF UniqueTogetherFree(history, r)
           THEN /\ history' = history \cup {r}
                /\ result' = Request("append_history", u, d, p, "saved")
           ELSE /\ history' = history
                /\ result' = Request("append_history", u, d, p, "duplicate")
    /\ UNCHANGED <<users, scores, ecoVars, marketVars>>

NextStore ==
    \/ \E u \in UserIds : CreateUser(u)
    \/ \E u \in UserIds : SaveUser(u)
    \/ \E u \in UserIds : DeleteUser(u)
    \/ \E u \in UserIds : HardDeleteUser(u)
    \/ \E u \in UserIds, d \in HistDates, p \in HistPeriods,
          pts \in HistPoints : AppendHistory(u, d, p, pts)

SpecStore == Init /\ [][NextStore]_vars

----------------------------------------------------------------------------
(* The marketplace: Listing.save, Deal.save and the post_save receiver     *)
(* create_deal_event.  Every save reads timezone.now(), the counter now.   *)

\* id = UUIDField(primary_key=True, default=uuid.uuid4): the instance has
\* its pk from construction on, stored or not
HasPk == TRUE

\* a Listing instance that is not stored yet
NewListing(st, verified) ==
    [status |-> st, published_at |-> NoTime, is_verified |-> verified,
     verification_date |-> NoTime]

\* Listing.save up to super().save(): the instance as it will be written,
\* or NoRow when Listing.objects.get(pk=self.pk) raises DoesNotExist
ListingToWrite(stored, self, t) ==
    LET published ==
            IF HasPk
            THEN IF stored.status # self.status /\ self.status = "active"
                    /\ self.published_at = NoTime
                 THEN [self EXCEPT !.published_at = t]
                 ELSE self
            ELSE IF self.status = "active" /\ self.published_at = NoTime
                 THEN [self EXCEPT !.published_at = t]
                 ELSE self
        verified ==
            IF published.is_verified /\ published.verification_date = NoTime
            THEN [published EXCEPT !.verification_date = t]
            ELSE published
    IN  IF HasPk /\ stored = NoRow THEN NoRow ELSE verified

(* save() of the listing with pk id, its status set to st and is_verified *)
(* to verified by the caller                                               *)
ListingSave(id, st, verified) ==
    /\ now < MaxNow
    /\ now' = now + 1
    /\ LET stored == listings[id]
           self == IF stored = NoRow THEN NewListing(st, verified)
                   ELSE [stored EXCEPT !.status = st,
                                       !.is_verified = verified]
           row == ListingToWrite(stored, self, now')
       IN  IF row = NoRow
           THEN /\ listings' = listings
                /\ result' = Request("save_listing", id, NoDate, "", "error")
           ELSE /\ listings' = [listings EXCEPT ![id] = row]
                /\ result' = Request("save_listing", id, NoDate, "", "saved")
    /\ UNCHANGED <<deals, events, users, scores, history, ecoVars>>

\* a Deal instance that is not stored yet: 10.00 kg at 2.50 per kg
NewDeal(st) ==
    [status |-> st, reference_code |-> NoCode, created_day |-> Today,
     accepted_at |-> NoTime, completed_at |-> NoTime,
     cancelled_at |-> NoTime, quantity_kg |-> 1000, price_per_kg |-> 250,
     total_amount |-> 0]

\* Deal.objects.filter(created_at__range=(today_start, today_end)).count()
TodayCount(table) ==
    Cardinality({d \in DOMAIN table :
                    table[d] # NoRow /\ table[d].created_day = Today})

\* lines 436-460: the reference code and the total amount
DealPrepared(table, self) ==
    LET coded ==
            IF self.reference_code = NoCode
            THEN [self EXCEPT !.reference_code =
                                 ReferenceCode(Today, TodayCount(table) + 1)]
            ELSE self
    IN  IF coded.total_amount = 0 /\ coded.price_per_kg # 0
           /\ coded.quantity_kg # 0
        THEN [coded EXCEPT !.total_amount =
                 (coded.price_per_kg * coded.quantity_kg) \div Hundredths]
        ELSE coded

\* lines 462-471: the timestamps of a status change, or NoRow when
\* Deal.objects.get(pk=self.pk) raises DoesNotExist
DealToWrite(stored, self, t) ==
    IF HasPk
    THEN IF stored = NoRow THEN NoRow
         ELSE IF stored.status # self.status
         THEN IF self.status = "accepted" /\ self.accepted_at = NoTime
              THEN [self EXCEPT !.accepted_at = t]
              ELSE IF self.status = "completed" /\ self.completed_at = NoTime
              THEN [self EXCEPT !.completed_at = t]
              ELSE IF self.status = "cancelled" /\ self.cancelled_at = NoTime
              THEN [self EXCEPT !.cancelled_at = t]
              ELSE self
         ELSE self
    ELSE self

\* reference_code is unique=True: no other row holds the code
CodeFree(table, id, code) ==
    \A d \in DOMAIN table :
        (d # id /\ table[d] # NoRow) => table[d].reference_code # code

\* the post_save receiver create_deal_event, run on the table as it is
\* after the write
CreateDealEvent(table, evts, id, instance, created) ==
    IF created
    THEN [evts EXCEPT ![<<id, Created>>] = @ + 1]
    ELSE IF table[id] = NoRow THEN evts
    ELSE IF table[id].status # instance.status
    THEN [evts EXCEPT ![<<id, StatusChangedTo(instance.status)>>] = @ + 1]
    ELSE evts

(* save() of the deal with pk id, its status set to st by the caller *)
DealSave(id, st) ==
    /\ now < MaxNow
    /\ now' = now + 1
    /\ LET stored == deals[id]
           self == DealPrepared(deals,
                       IF stored = NoRow THEN NewDeal(st)
                       ELSE [stored EXCEPT !.status = st])
           row == DealToWrite(stored, self, now')
       IN  IF row = NoRow \/ ~CodeFree(deals, id, row.reference_code)
           THEN /\ deals' = deals
                /\ events' = events
                /\ result' = Request("save_deal", id, NoDate, "", "error")
           ELSE /\ deals' = [deals EXCEPT ![id] = row]
                /\ events' = CreateDealEvent(deals', events, id, row,
                                             stored = NoRow)
                /\ result' = Request("save_deal", id, NoDate, "", "saved")
    /\ UNCHANGED <<listings, users, scores, history, ecoVars>>

(* delete() of a stored deal; its events go with it (on_delete=CASCADE) *)
DealDelete(id) ==
    /\ deals[id] # NoRow
    /\ deals' = [deals EXCEPT ![id] = NoRow]
    /\ events' = [e \in DOMAIN events |-> IF e[1] = id THEN 0 ELSE events[e]]
    /\ result' = Request("delete_deal", id, NoDate, "", "saved")
    /\ UNCHANGED <<listings, now, users, scores, history, ecoVars>>

\* rows that are in the tables at the start: a draft listing, and pending
\* deals of today or of an earlier day with their `created` event
StoredListing == NewListing("draft", FALSE)

StoredDeals(id) ==
    {[NewDeal("pending") EXCEPT !.reference_code = ReferenceCode(day, id),
                                !.created_day = day,
                                !.total_amount = 2500] : day \in {0, Today}}

InitMarket ==
    /\ batches = [k \in BatchKinds |-> 0]
    /\ score = FreshScore
    /\ pc = [w \in Workers |-> "idle"]
    /\ inst = [w \in Workers |-> FreshScore]
    /\ lastAgg = NoAgg
    /\ gam = "idle"
    /\ clock = NoDate
    /\ hist = NoHist
    /\ EmptyStore
    /\ listings \in [ListingIds -> {NoRow, StoredListing}]
    /\ deals \in {t \in [DealIds -> {NoRow} \cup UNION {StoredDeals(d) : d \in DealIds}] :
                     \A d \in DealIds : t[d] = NoRow \/ t[d] \in StoredDeals(d)}
    /\ events = [e \in DealIds \X EventTypes |->
                    IF e[2] = Created /\ deals[e[1]] # NoRow THEN 1 ELSE 0]
    /\ now = 0

NextMarket ==
    \/ \E id \in ListingIds, st \in ListingStatuses, v \in BOOLEAN :
          ListingSave(id, st, v)
    \/ \E id \in DealIds, st \in DealStatuses : DealSave(id, st)
    \/ \E id \in DealIds : DealDelete(id)

SpecMarket == InitMarket /\ [][NextMarket]_vars

----------------------------------------------------------------------------
(* Properties of update_from_batches, run after run (Spec)                 *)

\* C1: a badge code that is in `badges` is still in `badges` after every
\* later run: each run's badge set is a superset of the one stored before.
C1_BadgesNeverRemoved ==
    [][score.badges \subseteq score'.badges]_vars

\* C2: a second run with the same `today` and the same recycled batches as
\* the run that produced the stored row leaves every field of the row equal.
C2_SecondRunChangesNothing ==
    [][\A d \in Days :
          ( /\ UpdateFromBatches(d)
            /\ score.last_activity_date = d
            /\ score.total_batches = BatchesCount(batches)
            /\ score.total_weight_kg = WeightSum(batches) )
          => score' = score]_vars

\* C5: after every run, from a fresh row and for any sequence of trigger
\* dates, longest_streak_days >= streak_days.
C5_LongestAtLeastStreak ==
    score.longest_streak_days >= score.streak_days

\* C5 witness: runs have built a streak of three days and a later run on a
\* non-consecutive date has broken it.
C5_Witness ==
    /\ score.last_activity_date # NoDate
    /\ score.streak_days = 1
    /\ score.longest_streak_days >= 3

\* C6: whenever a run ends with streak_days >= 7 (30, 100), the badge set it
\* saved contains weekly_streak (monthly_streak, centurion).
C6_StreakBadgesFollowStreak ==
    /\ score.streak_days >= 7 => "weekly_streak" \in score.badges
    /\ score.streak_days >= 30 => "monthly_streak" \in score.badges
    /\ score.streak_days >= 100 => "centurion" \in score.badges

\* C7 (as stated): points and level never decrease from one run to the
\* next, and level >= 1 and points >= 0 in every state.
C7_PointsLevelNeverDecrease ==
    /\ [](score.level >= 1 /\ score.points >= 0)
    /\ [][/\ score'.points >= score.points
          /\ score'.level >= score.level]_vars

\* C7 (amended): points and level do not decrease in a run whose aggregated
\* total_weight_kg is at least the stored one, and level >= 1 and
\* points >= 0 in every state.
C7_NoDecreaseWhileWeightGrows ==
    /\ [](score.level >= 1 /\ score.points >= 0)
    /\ [][score'.total_weight_kg >= score.total_weight_kg
          => /\ score'.points >= score.points
             /\ score'.level >= score.level]_vars

\* C7 witness: a run has stored 10 kg or more (level 2, 100 points) and the
\* table now holds more weight than the row, so the next run raises it.
C7_Witness ==
    /\ score.last_activity_date # NoDate
    /\ score.points >= 100
    /\ score.level >= 2
    /\ WeightSum(batches) > score.total_weight_kg

\* C10: when a run follows another and stores total_weight_kg,
\* total_batches and streak_days each at least as large as the row held
\* before, the badge set it stores is a superset of the one held before.
C10_BadgesGrowWithMetrics ==
    [][( /\ score.last_activity_date # NoDate
         /\ \E d \in Days : UpdateFromBatches(d)
         /\ score'.total_weight_kg >= score.total_weight_kg
         /\ score'.total_batches >= score.total_batches
         /\ score'.streak_days >= score.streak_days )
       => score.badges \subseteq score'.badges]_vars

----------------------------------------------------------------------------
(* Properties of interleaved runs (SpecConc)                               *)

\* C3: once both runs have finished, the stored total_batches and
\* total_weight_kg are those read by the most recent complete aggregation.
C3_LastAggregationWins ==
    ( /\ \A w \in Workers : pc[w] = "idle"
      /\ lastAgg # NoAgg )
    => /\ score.total_batches = lastAgg.total_batches
       /\ score.total_weight_kg = lastAgg.total_weight_kg

\* C4: no two runs for the user are both between their read of the row and
\* their save().
C4_WritersSerialized ==
    Cardinality({w \in Workers : pc[w] # "idle"}) <= 1

----------------------------------------------------------------------------
(* Properties of _update_gamification_elements alone (SpecGam)             *)

\* C8: for every non-negative total_weight_kg with two decimal places,
\* points is the floor of ten times the weight: with the weight in
\* hundredths of a kg, 10 * points <= weight < 10 * (points + 1).
C8_PointsAreFloor ==
    gam = "done" =>
        /\ inst[1].points * 10 <= inst[1].total_weight_kg
        /\ inst[1].total_weight_kg < (inst[1].points + 1) * 10

\* C8 witness: a weight that is no multiple of 0.10 kg (29.99 kg) has been
\* converted to points.
C8_Witness ==
    /\ gam = "done"
    /\ inst[1].total_weight_kg = 2999
    /\ inst[1].points = 299

\* C9: after the call the level is the number of entries of the table that
\* are <= points, whatever level was stored before.
C9_LevelCountsThresholds ==
    gam = "done" =>
        inst[1].level =
            Cardinality({i \in 1..11 :
                <<0, 100, 300, 600, 1000, 1500, 2100, 2800, 3600, 4500, 5500>>[i]
                    <= inst[1].points})

\* C9 witness: the row held level 11 and the call on 30.00 kg (300 points)
\* has set level 3.
C9_Witness ==
    /\ gam = "done"
    /\ score.level = 11
    /\ inst[1].points = 300
    /\ inst[1].level = 3

\* C11: after the call each weight badge is present whenever
\* total_weight_kg >= its threshold (1, 10, 50, 100, 500, 1000 kg) and each
\* batch-count badge whenever total_batches >= its threshold (5, 20, 50);
\* a value equal to the threshold earns the badge.
C11_BadgesAtThresholds ==
    gam = "done" =>
        LET s == inst[1]
        IN  /\ s.total_weight_kg >= 100 => "first_step" \in s.badges
            /\ s.total_weight_kg >= 1000 => "eco_starter" \in s.badges
            /\ s.total_weight_kg >= 5000 => "eco_enthusiast" \in s.badges
            /\ s.total_weight_kg >= 10000 => "eco_warrior" \in s.badges
            /\ s.total_weight_kg >= 50000 => "eco_champion" \in s.badges
            /\ s.total_weight_kg >= 100000 => "eco_legend" \in s.badges
            /\ s.total_batches >= 5 => "regular_recycler" \in s.badges
            /\ s.total_batches >= 20 => "dedicated_recycler" \in s.badges
            /\ s.total_batches >= 50 => "recycling_expert" \in s.badges

\* C11 witness: the call ran on exactly 500.00 kg and exactly 20 batches and
\* awarded eco_champion and dedicated_recycler.
C11_Witness ==
    /\ gam = "done"
    /\ inst[1].total_weight_kg = 50000
    /\ inst[1].total_batches = 20
    /\ "eco_champion" \in inst[1].badges
    /\ "dedicated_recycler" \in inst[1].badges
    /\ "recycling_expert" \notin inst[1].badges

\* C12: after the call next_badge_progress lies in [0.0, 1.0], and it is
\* < 1 when some weight badge is unearned.
C12_ProgressInUnitInterval ==
    gam = "done" =>
        LET s == inst[1]
            p == s.next_badge_progress
            weightCodes == {"first_step", "eco_starter", "eco_enthusiast",
                            "eco_warrior", "eco_champion", "eco_legend"}
        IN  /\ p.den > 0
            /\ 0 <= p.num
            /\ p.num <= p.den
            /\ ~(weightCodes \subseteq s.badges) => p.num < p.den

\* C12 witness: the row held all six weight badges, the call ran on 9.99 kg
\* and stored a progress of 999/1000.
C12_Witness ==
    /\ gam = "done"
    /\ "eco_legend" \in score.badges
    /\ inst[1].total_weight_kg = 999
    /\ inst[1].next_badge_progress.num = 999
    /\ inst[1].next_badge_progress.den = 1000

\* C13: next_badge_progress is total_weight_kg divided by the threshold of
\* the first weight badge (ascending) that is not in the badge set this call
\* stored, and it is 1.0 exactly when all six weight badges are in that set.
C13_ProgressFromUpdatedBadges ==
    gam = "done" =>
        LET s == inst[1]
            p == s.next_badge_progress
            codes == <<"first_step", "eco_starter", "eco_enthusiast",
                       "eco_warrior", "eco_champion", "eco_legend">>
            kg == <<1, 10, 50, 100, 500, 1000>>
            unearned == {i \in 1..6 : codes[i] \notin s.badges}
            first == CHOOSE i \in unearned : \A j \in unearned : i <= j
        IN  /\ p.den > 0
            \* p = total_weight_kg / threshold: both are the same multiple of
            \* p's numerator and denominator
            /\ unearned # {} =>
                  IF s.total_weight_kg = 0 THEN p.num = 0
                  ELSE /\ p.num > 0
                       /\ s.total_weight_kg % p.num = 0
                       /\ (kg[first] * 100) % p.den = 0
                       /\ s.total_weight_kg \div p.num = (kg[first] * 100) \div p.den
            /\ (unearned = {}) <=> (p.num = p.den)

\* C13 witness: the row held no badge, the call ran on 50.00 kg, stored the
\* first three weight badges and a progress of 50/100.
C13_Witness ==
    /\ gam = "done"
    /\ score.badges = {}
    /\ inst[1].total_weight_kg = 5000
    /\ "eco_enthusiast" \in inst[1].badges
    /\ inst[1].next_badge_progress.num = 1
    /\ inst[1].next_badge_progress.den = 2

----------------------------------------------------------------------------
(* Properties of _update_streak alone (SpecStreak): score is the row       *)
(* before the call, inst[1] the instance after it, clock is today          *)

\* C14: when last_activity_date equals today, streak_days,
\* longest_streak_days and last_activity_date are left unchanged.
C14_SameDayNoOp ==
    (gam = "done" /\ score.last_activity_date = clock) =>
        /\ inst[1].streak_days = score.streak_days
        /\ inst[1].longest_streak_days = score.longest_streak_days
        /\ inst[1].last_activity_date = score.last_activity_date

\* C14 witness: the call ran on the stored date with a streak of 3 days.
C14_Witness ==
    /\ gam = "done"
    /\ score.last_activity_date = clock
    /\ score.streak_days = 3
    /\ inst[1].streak_days = 3

\* C16: when last_activity_date is set and today differs from it by
\* anything but 0 or +1 day, streak_days becomes 1, last_activity_date
\* becomes today and longest_streak_days is left unchanged.
C16_BrokenStreak ==
    ( /\ gam = "done"
      /\ score.last_activity_date # NoDate
      /\ clock - score.last_activity_date \notin {0, 1} ) =>
        /\ inst[1].streak_days = 1
        /\ inst[1].last_activity_date = clock
        /\ inst[1].longest_streak_days = score.longest_streak_days

\* C16 witness: streak 6, longest 6, trigger five days after the last
\* activity gives streak 1, longest 6.
C16_Witness ==
    /\ gam = "done"
    /\ score.streak_days = 6
    /\ score.longest_streak_days = 6
    /\ clock = score.last_activity_date + 5
    /\ inst[1].streak_days = 1
    /\ inst[1].longest_streak_days = 6

\* C17: when today is exactly one day after last_activity_date,
\* streak_days increases by exactly 1, last_activity_date becomes today and
\* longest_streak_days becomes max(old longest, new streak).
C17_ConsecutiveDay ==
    ( /\ gam = "done"
      /\ score.last_activity_date # NoDate
      /\ clock = score.last_activity_date + 1 ) =>
        /\ inst[1].streak_days = score.streak_days + 1
        /\ inst[1].last_activity_date = clock
        /\ inst[1].longest_streak_days >= score.longest_streak_days
        /\ inst[1].longest_streak_days >= inst[1].streak_days
        /\ inst[1].longest_streak_days
               \in {score.longest_streak_days, inst[1].streak_days}

\* C17 witness: streak 5, longest 5, trigger on the next day gives
\* streak 6, longest 6.
C17_Witness ==
    /\ gam = "done"
    /\ score.streak_days = 5
    /\ score.longest_streak_days = 5
    /\ clock = score.last_activity_date + 1
    /\ inst[1].streak_days = 6
    /\ inst[1].longest_streak_days = 6

\* C18: when last_activity_date is unset, the call sets streak_days = 1,
\* longest_streak_days = 1 and last_activity_date = today.
C18_FirstActivity ==
    (gam = "done" /\ score.last_activity_date = NoDate) =>
        /\ inst[1].streak_days = 1
        /\ inst[1].longest_streak_days = 1
        /\ inst[1].last_activity_date = clock

\* C18 witness: the call ran on a fresh row on day 4.
C18_Witness ==
    /\ gam = "done"
    /\ score = FreshScore
    /\ clock = 4
    /\ inst[1].last_activity_date = 4
    /\ inst[1].streak_days = 1

----------------------------------------------------------------------------
(* Properties of a sequence of triggers (SpecTrig): clock' is the date of  *)
(* the run that makes the step                                             *)

StreakState(s) ==
    <<s.streak_days, s.longest_streak_days, s.last_activity_date>>

\* C15 as stated: for any sequence of triggers, streak_days increases by at
\* most 1 per run, and a run on a date on which an earlier run changed
\* streak_days leaves the streak state unchanged.
C15_OncePerCalendarDay ==
    [][ /\ score'.streak_days <= score.streak_days + 1
        /\ clock' \in hist.changedOn =>
               StreakState(score') = StreakState(score) ]_vars

\* C15 amended: streak_days increases by at most 1 per run; a run on the
\* stored last_activity_date leaves the streak state unchanged; and as long
\* as no run's date was earlier than the stored last_activity_date, a run on
\* a date on which an earlier run changed streak_days leaves the streak
\* state unchanged.
C15_OncePerDayForwardDates ==
    [][ /\ score'.streak_days <= score.streak_days + 1
        /\ clock' = score.last_activity_date =>
               StreakState(score') = StreakState(score)
        /\ (clock' \in hist.changedOn /\ ~hist'.wentBack) =>
               StreakState(score') = StreakState(score) ]_vars

\* C15 witness: dates never went back, the streak advanced on two dates and
\* a further run took place on a date that had already advanced it.
C15_Witness ==
    /\ ~hist.wentBack
    /\ hist.rerun
    /\ Cardinality(hist.changedOn) >= 2
    /\ clock \in hist.changedOn
    /\ score.streak_days = 2

----------------------------------------------------------------------------
(* Further properties of update_from_batches, run after run (Spec)         *)

\* C19: across any sequence of runs on arbitrary dates, longest_streak_days
\* never decreases and equals the largest streak_days a run has stored so
\* far.
C19_LongestIsRunningMax ==
    [][ /\ score'.longest_streak_days >= score.longest_streak_days
        /\ score'.longest_streak_days = hist'.maxStreak ]_vars

\* C19 witness: a streak of 3 days was reached and then broken.
C19_Witness ==
    /\ hist.maxStreak = 3
    /\ score.longest_streak_days = 3
    /\ score.streak_days = 1

\* C20: for a fresh score whose user has exactly one recycled, active batch
\* of 10.00 kg, one run on date d yields points 100, level 2, badges
\* {first_step, eco_starter}, next_badge_progress 10/50, streak_days 1 and
\* longest_streak_days 1.
C20_FirstRunTenKg ==
    [][ \A d \in Days :
          ( /\ score = FreshScore
            /\ BatchesCount(batches) = 1
            /\ WeightSum(batches) = 10 * Hundredths
            /\ UpdateFromBatches(d) ) =>
              /\ score'.points = 100
              /\ score'.level = 2
              /\ score'.badges = {"first_step", "eco_starter"}
              /\ score'.next_badge_progress = Progress(10, 50)
              /\ score'.streak_days = 1
              /\ score'.longest_streak_days = 1
              /\ score'.last_activity_date = d ]_vars

\* C20 witness: the row after that first run.
C20_Witness ==
    /\ score.total_batches = 1
    /\ score.total_weight_kg = 10 * Hundredths
    /\ score.points = 100
    /\ score.level = 2
    /\ score.badges = {"first_step", "eco_starter"}
    /\ score.next_badge_progress = Progress(10, 50)
    /\ score.streak_days = 1
    /\ score.longest_streak_days = 1
    /\ score.last_activity_date = clock
    /\ hist.maxStreak = 1

\* C28: after every run, for any sequence of trigger dates,
\* last_activity_date is the date of the latest run and streak_days >= 1;
\* streak_days = 0 occurs only in a score no run has updated.
C28_StreakStateAfterRun ==
    /\ clock # NoDate =>
           /\ score.last_activity_date = clock
           /\ score.streak_days >= 1
    /\ score.streak_days = 0 =>
           /\ clock = NoDate
           /\ score = FreshScore

\* C28 witness: a run on day 2 after a later last activity (day 5) broke a
\* streak of 3 days.
C28_Witness ==
    /\ clock = 2
    /\ score.last_activity_date = 2
    /\ score.streak_days = 1
    /\ score.longest_streak_days = 3

----------------------------------------------------------------------------
(* Further properties of _update_gamification_elements alone (SpecGam)     *)

AllBadgeCodes ==
    {WeightBadges[i].code : i \in 1..Len(WeightBadges)}
    \cup {BatchBadges[i].code : i \in 1..Len(BatchBadges)}
    \cup {StreakBadges[i].code : i \in 1..Len(StreakBadges)}

DownwardClosed(table, badges) ==
    \A i, j \in 1..Len(table) :
        (table[i].threshold < table[j].threshold /\ table[j].code \in badges)
            => table[i].code \in badges

\* C29: after the call the badge set is downward closed within the weight,
\* the batch-count and the streak family, and holds no code outside the
\* twelve defined badge codes.
C29_BadgesDownwardClosed ==
    gam = "done" =>
        /\ DownwardClosed(WeightBadges, inst[1].badges)
        /\ DownwardClosed(BatchBadges, inst[1].badges)
        /\ DownwardClosed(StreakBadges, inst[1].badges)
        /\ inst[1].badges \subseteq AllBadgeCodes

\* C29 witness: 100 kg, 20 batches and a streak of 30 days give the four
\* lowest weight badges and the two lowest batch and streak badges.
C29_Witness ==
    /\ gam = "done"
    /\ inst[1].total_weight_kg = 100 * Hundredths
    /\ inst[1].total_batches = 20
    /\ inst[1].streak_days = 30
    /\ inst[1].badges =
           {"first_step", "eco_starter", "eco_enthusiast", "eco_warrior",
            "regular_recycler", "dedicated_recycler",
            "weekly_streak", "monthly_streak"}

----------------------------------------------------------------------------
(* Properties of one run over an arbitrary table (SpecAgg, SpecNeg)        *)

\* the kinds of row the aggregation is to count
Counted ==
    {k \in DOMAIN batches :
        k.owner = User /\ k.status = RECYCLED /\ k.is_active}

\* C21: after the run total_batches is the number and total_weight_kg the
\* weight sum of the owner's recycled, active batches, whatever other rows
\* the table holds, and with no such batch both are 0 and the run is saved.
C21_CountsOwnRecycledActive ==
    gam = "done" =>
        /\ hist.outcome = "saved"
        /\ score.total_batches = SumRows(Counted, batches, FALSE)
        /\ score.total_weight_kg = SumRows(Counted, batches, TRUE)
        /\ (\A k \in Counted : batches[k] = 0) =>
               score.total_batches = 0 /\ score.total_weight_kg = 0

\* C21 witness: a table with one counted batch of 10.00 kg and one recycled,
\* active batch of another user.
C21_Witness ==
    /\ gam = "done"
    /\ TableSize(batches) = 2
    /\ \E k \in DOMAIN batches :
           k.owner # User /\ k.status = RECYCLED /\ k.is_active
           /\ batches[k] = 1
    /\ score.total_batches = 1
    /\ score.total_weight_kg = 10 * Hundredths

\* C22: a run whose aggregated weight is negative ends in an error and
\* leaves the stored row exactly as it was.
C22_NegativeWeightRejected ==
    [][ (gam = "input" /\ gam' = "done" /\ WeightSum(batches) < 0) =>
            (hist'.outcome = "error" /\ score' = score) ]_vars

\* the impact total of a coefficient over the counted batches, in
\* millionths; a batch whose coefficient is missing adds nothing
ExpectedImpact(field) ==
    SumProducts({k \in Counted : k.material_type[field] # NoCoefficient},
                batches, field)

\* a stored Decimal(.., 2) value is x rounded to the hundredth
IsRounded(stored, x) ==
    /\ stored % (Hundredths * Hundredths) = 0
    /\ 2 * Abs(stored - x) <= Hundredths * Hundredths

\* C24 as stated, read on the stored row: each impact total equals the sum
\* of weight_kg times coefficient over the counted batches (a missing
\* coefficient adding zero), all are >= 0, and trees_equivalent equals
\* total_co2_saved_kg / 20.
C24_StoredImpactExact ==
    gam = "done" =>
        /\ score.total_co2_saved_kg = ExpectedImpact("co2_per_kg")
        /\ score.total_water_saved_liters = ExpectedImpact("water_per_kg")
        /\ score.total_energy_saved_kwh = ExpectedImpact("energy_per_kg")
        /\ score.total_co2_saved_kg >= 0
        /\ score.total_water_saved_liters >= 0
        /\ score.total_energy_saved_kwh >= 0
        /\ score.trees_equivalent * TreesDivisor = score.total_co2_saved_kg

\* C24 amended: on the instance after the run each impact total equals that
\* sum and trees_equivalent equals total_co2_saved_kg / 20; all are >= 0;
\* and the stored row holds each of the four values rounded to two decimal
\* places.
C24_ImpactExactThenRounded ==
    gam = "done" =>
        /\ inst[1].total_co2_saved_kg = ExpectedImpact("co2_per_kg")
        /\ inst[1].total_water_saved_liters = ExpectedImpact("water_per_kg")
        /\ inst[1].total_energy_saved_kwh = ExpectedImpact("energy_per_kg")
        /\ inst[1].trees_equivalent * TreesDivisor
               = inst[1].total_co2_saved_kg
        /\ inst[1].total_co2_saved_kg >= 0
        /\ inst[1].total_water_saved_liters >= 0
        /\ inst[1].total_energy_saved_kwh >= 0
        /\ inst[1].trees_equivalent >= 0
        /\ hist.outcome = "saved"
        /\ IsRounded(score.total_co2_saved_kg, inst[1].total_co2_saved_kg)
        /\ IsRounded(score.total_water_saved_liters,
                     inst[1].total_water_saved_liters)
        /\ IsRounded(score.total_energy_saved_kwh,
                     inst[1].total_energy_saved_kwh)
        /\ IsRounded(score.trees_equivalent, inst[1].trees_equivalent)
        /\ score.total_co2_saved_kg >= 0
        /\ score.total_water_saved_liters >= 0
        /\ score.total_energy_saved_kwh >= 0
        /\ score.trees_equivalent >= 0

\* C24 witness: a counted batch of 0.05 kg of a rated material next to a
\* counted batch of a material without coefficients: 0.125 kg of CO2 and
\* 0.00625 trees on the instance, 0.13 and 0.01 in the stored row.
C24_Witness ==
    /\ gam = "done"
    /\ SumRows(Counted, batches, FALSE) = 2
    /\ \E k \in Counted :
           batches[k] = 1 /\ k.material_type = Unrated
    /\ inst[1].total_co2_saved_kg = 125000
    /\ inst[1].trees_equivalent = 6250
    /\ score.total_co2_saved_kg = 130000
    /\ score.trees_equivalent = 10000

----------------------------------------------------------------------------
(* Properties of the user, EcoScore and EcoHistory tables (SpecStore)      *)

SameKey(x, y) ==
    x.user = y.user /\ x.date = y.date /\ x.period_type = y.period_type

\* C23: there is at most one EcoHistory row per (user, date, period_type),
\* and an attempt to write a row with an existing key is rejected as a
\* duplicate and leaves the table as it was.
C23_HistoryAppendOnly ==
    /\ [](\A x, y \in history : SameKey(x, y) => x = y)
    /\ [][ ( /\ result'.op = "append_history"
             /\ \E x \in history : SameKey(x, result') ) =>
               (result'.outcome = "duplicate" /\ history' = history) ]_vars

\* C23 witness: a snapshot of user 1 with 100 points is stored and a second
\* write on its key was rejected.
C23_Witness ==
    /\ result.op = "append_history"
    /\ result.outcome = "duplicate"
    /\ result.user = 1
    /\ \E x \in history : SameKey(x, result) /\ x.points = 100

\* C25: a user row has exactly one EcoScore row from its creation on, a
\* later save of the user creates none and succeeds, and there is no
\* EcoScore row without its user.
C25_OneScorePerUser ==
    /\ \A u \in UserIds : scores[u] = IF users[u] = "none" THEN 0 ELSE 1
    /\ result.outcome # "error"

\* C25 witness: user 1 was created, soft-deleted and saved again and still
\* has one EcoScore.
C25_Witness ==
    /\ users[1] = "deleted"
    /\ scores[1] = 1
    /\ result.op = "save_user"
    /\ result.user = 1

----------------------------------------------------------------------------
(* Properties of the marketplace saves (SpecMarket)                        *)

\* C26: a save of a stored deal with a status other than the stored one
\* creates one DealEvent status_changed_to_<new status>, a save that keeps
\* the status creates no event, and creating a deal creates exactly one
\* `created` event.
C26_StatusChangeLogged ==
    [][ \A id \in DealIds, st \in DealStatuses :
          DealSave(id, st) =>
            IF deals[id] = NoRow
            THEN events'[<<id, Created>>] = 1
            ELSE IF deals[id].status # st
            THEN events' =
                   [events EXCEPT ![<<id, StatusChangedTo(st)>>] = @ + 1]
            ELSE events' = events ]_vars

\* C27: a save of a deal that is not stored and has no reference_code
\* completes and stores it with a code D-<today>-<sequence> that no stored
\* deal holds.
C27_NewDealGetsFreshCode ==
    [][ \A id \in DealIds, st \in DealStatuses :
          (DealSave(id, st) /\ deals[id] = NoRow) =>
            /\ result'.outcome = "saved"
            /\ deals'[id] # NoRow
            /\ \E n \in 1..(MaxDeals + 1) :
                   deals'[id].reference_code = ReferenceCode(Today, n)
            /\ \A d \in DealIds \ {id} :
                   deals[d] # NoRow =>
                       deals[d].reference_code # deals'[id].reference_code
      ]_vars

\* C30: published_at is set by the first save in which the listing's status
\* becomes active, a listing created as active included, and accepted_at,
\* completed_at and cancelled_at by the first save that moves the deal into
\* that status; a save never alters a timestamp that is set.
C30_TimestampsWrittenOnce ==
    [][ /\ \A id \in ListingIds, st \in ListingStatuses, v \in BOOLEAN :
             ListingSave(id, st, v) =>
               /\ ( /\ st = "active"
                    /\ \/ listings[id] = NoRow
                       \/ /\ listings[id].status # "active"
                          /\ listings[id].published_at = NoTime )
                    => /\ listings'[id] # NoRow
                       /\ listings'[id].published_at = now'
               /\ (listings[id] # NoRow /\ listings[id].published_at # NoTime)
                    => listings'[id].published_at = listings[id].published_at
        /\ \A id \in DealIds, st \in DealStatuses :
             (DealSave(id, st) /\ deals[id] # NoRow) =>
               LET old == deals[id]
                   new == deals'[id]
               IN  /\ new.accepted_at =
                         IF old.accepted_at # NoTime THEN old.accepted_at
                         ELSE IF st = "accepted" /\ old.status # st THEN now'
                         ELSE NoTime
                   /\ new.completed_at =
                         IF old.completed_at # NoTime THEN old.completed_at
                         ELSE IF st = "completed" /\ old.status # st THEN now'
                         ELSE NoTime
                   /\ new.cancelled_at =
                         IF old.cancelled_at # NoTime THEN old.cancelled_at
                         ELSE IF st = "cancelled" /\ old.status # st THEN now'
                         ELSE NoTime
      ]_vars

====
